---- MODULE Spec2Model ----
(***************************************************************************)
(* Model of src/bot.py: the per-user daily quota (user_data,               *)
(* get_user_data, can_make_request), the model fallback loop of            *)
(* analyze_with_gemini and the photo handler handle_photo.                 *)
(*                                                                         *)
(* handle_photo is a coroutine.  Each action below is the code between two *)
(* of its await points; the outcome of the awaited platform call (it       *)
(* returns or it raises) is chosen when the coroutine resumes.             *)
(* analyze_with_gemini contains no await (generate_content is a blocking   *)
(* call), so from the resumption after download_as_bytearray up to the     *)
(* await of processing_msg.delete() the event loop belongs to one task:    *)
(* the variable running names that task and keeps every other coroutine    *)
(* from taking a step, while the steps of the loop stay visible.           *)
(***************************************************************************)
EXTENDS Integers, Sequences, FiniteSets, TLC

\* ------------------------------------------------------------------ bounds
\* Calendar days the clock runs through: 1..MaxDay.
MaxDay == 2
\* Cap on requests_today plus the requests in flight of one user.
MaxRequests == 5

\* Telegram user ids seen by the bot, and the handler invocations (coroutines)
\* that may be alive at once.
Users == {101, 202}
Tasks == {"t1", "t2"}

\* ------------------------------------------------------- program constants
\* last_request_date of a fresh record (None); calendar days are 1, 2, ...
NoDate == 0
\* The free daily limit compared with requests_today.
DailyLimit == 3

models_to_try ==
    << "gemini-1.0-pro-vision", "gemini-pro-vision",
       "gemini-1.5-flash", "gemini-1.0-pro" >>

LimitMessage == "limit 3/3 exhausted - buy a subscription"
ResultText == "analysis result, used today n/3"
GenericError == "error while processing the photo, try again"
AllUnavailableText == "all Gemini models unavailable"
GeminiErrorPrefix == "Gemini API error: "
DecodeException == "cannot identify image file"
RemoteException == "model call failed"

VARIABLES
    user_data,   \* the module-level dict: user id -> record
    today,       \* datetime.now().date()
    running,     \* the task inside a section without await, or "none"
    task,        \* per handler invocation: position and locals of handle_photo
    recorded,    \* history: per user, the increments made on the current day
    exceeded     \* history: the users with more than DailyLimit of them in a day

vars == << user_data, today, running, task, recorded, exceeded >>

\* ---------------------------------------------------------------- records
NewRecord ==
    [requests_today |-> 0, last_request_date |-> NoDate,
     subscription_active |-> FALSE]

\* The values analyze_with_gemini returns: the text of a model, the fixed
\* "all models unavailable" string, or the prefixed error string carrying the
\* exception's message.
NoResult == [kind |-> "none", model |-> "", detail |-> ""]
AnalysisText(model_name) ==
    [kind |-> "analysis", model |-> model_name, detail |-> ""]
AllUnavailable == [kind |-> AllUnavailableText, model |-> "", detail |-> ""]
GeminiError(e) == [kind |-> GeminiErrorPrefix, model |-> "", detail |-> e]

\* What download_as_bytearray can hand over: bytes Image.open decodes, or not.
ImageBytes == {"image", "garbage"}

\* The locals of one handle_photo invocation.  calls lists the remote calls
\* the current analyze_with_gemini invocation has made.  replies lists the
\* messages the user was sent that stay on the screen, each by the text it
\* carries; the wording of a text (the usage line, the cut at 4000
\* characters) is left out.
NewTask ==
    [pc |-> "idle", user |-> 0, can_request |-> FALSE, message |-> "",
     processing_msg |-> "none", image_data |-> "none",
     model_idx |-> 0, calls |-> << >>, analysis_result |-> NoResult,
     full_response |-> "", replies |-> << >>, outcome |-> "running"]

\* ------------------------------------------------------------ quota tracker
\* Variant: the record is built anew on every access.
get_user_data_recreates(ud, user_id) ==
    [u \in DOMAIN ud \cup {user_id} |->
        IF u = user_id THEN NewRecord ELSE ud[u]]

\* Lines 38-45: the record of user_id, created when missing.
get_user_data(ud, user_id) ==
    IF user_id \in DOMAIN ud THEN ud ELSE ud @@ (user_id :> NewRecord)

\* Variant: the date is brought up to today and the counter is kept.
reset_date_only(rec, date) ==
    IF rec.last_request_date # date
    THEN [rec EXCEPT !.last_request_date = date]
    ELSE rec

\* Lines 51-53: a stored date other than today resets the counter.
reset_if_new_day(rec, date) ==
    IF rec.last_request_date # date
    THEN [rec EXCEPT !.requests_today = 0, !.last_request_date = date]
    ELSE rec

\* Variant: the comparison is off by one.
quota_decision_off_by_one(rec) ==
    IF rec.subscription_active THEN [allowed |-> TRUE, message |-> ""]
    ELSE IF rec.requests_today < DailyLimit - 1
         THEN [allowed |-> TRUE, message |-> ""]
         ELSE [allowed |-> FALSE, message |-> LimitMessage]

\* Variant: a request is still allowed with the limit reached.
quota_decision_at_limit(rec) ==
    IF rec.subscription_active THEN [allowed |-> TRUE, message |-> ""]
    ELSE IF rec.requests_today <= DailyLimit
         THEN [allowed |-> TRUE, message |-> ""]
         ELSE [allowed |-> FALSE, message |-> LimitMessage]

\* Variant: the subscription is not looked at.
quota_decision_no_subscription(rec) ==
    IF rec.requests_today < DailyLimit
    THEN [allowed |-> TRUE, message |-> ""]
    ELSE [allowed |-> FALSE, message |-> LimitMessage]

\* Lines 55-63, on the record as it is after the reset.
quota_decision(rec) ==
    IF rec.subscription_active THEN [allowed |-> TRUE, message |-> ""]
    ELSE IF rec.requests_today < DailyLimit
         THEN [allowed |-> TRUE, message |-> ""]
         ELSE [allowed |-> FALSE, message |-> LimitMessage]

\* Variant: the request is counted when it is checked.
can_make_request_counting(ud, user_id, date) ==
    LET ud1 == get_user_data(ud, user_id)
        rec == reset_if_new_day(ud1[user_id], date)
        d == quota_decision(rec)
    IN  [user_data |-> [ud1 EXCEPT ![user_id] =
                           IF d.allowed
                           THEN [rec EXCEPT !.requests_today = @ + 1]
                           ELSE rec],
         allowed |-> d.allowed, message |-> d.message]

can_make_request(ud, user_id, date) ==
    LET ud1 == get_user_data(ud, user_id)
        rec == reset_if_new_day(ud1[user_id], date)
        d == quota_decision(rec)
    IN  [user_data |-> [ud1 EXCEPT ![user_id] = rec],
         allowed |-> d.allowed, message |-> d.message]

\* Variant: one counter for all users.
record_usage_shared(ud, user_id) ==
    LET ud1 == get_user_data(ud, user_id)
    IN  [u \in DOMAIN ud1 |-> [ud1[u] EXCEPT !.requests_today = @ + 1]]

\* Lines 148-149.
record_usage(ud, user_id) ==
    LET ud1 == get_user_data(ud, user_id)
    IN  [ud1 EXCEPT ![user_id].requests_today = @ + 1]

\* ---------------------------------------------------------- analysis invoker
\* Variant: Image.open outside the try, its exception reaches handle_photo.
open_image_raises(t) ==
    IF t.image_data = "image"
    THEN [t EXCEPT !.pc = "try_model", !.model_idx = 1]
    ELSE [t EXCEPT !.pc = "exc_delete"]

\* Lines 67-70 and 114-116: Image.open either yields the image, and the loop
\* starts at the first candidate, or raises into the outer except, which
\* returns the prefixed error string.
open_image(t) ==
    IF t.image_data = "image"
    THEN [t EXCEPT !.pc = "try_model", !.model_idx = 1]
    ELSE [t EXCEPT !.pc = "record_usage",
                   !.analysis_result = GeminiError(DecodeException)]

\* Variant: no return at line 105, the loop goes on after a success.
try_model_no_return(t, ok) ==
    LET model_name == models_to_try[t.model_idx]
        called == Append(t.calls, [model |-> model_name, ok |-> ok])
        result == IF ok THEN AnalysisText(model_name) ELSE t.analysis_result
    IN  IF t.model_idx < Len(models_to_try)
        THEN [t EXCEPT !.calls = called, !.model_idx = @ + 1,
                       !.analysis_result = result]
        ELSE [t EXCEPT !.calls = called, !.pc = "record_usage",
                       !.analysis_result =
                          IF result = NoResult THEN AllUnavailable ELSE result]

\* Variant: the last candidate's exception reaches the outer except, as with
\* a single model.
try_model_last_error(t, ok) ==
    LET model_name == models_to_try[t.model_idx]
        called == Append(t.calls, [model |-> model_name, ok |-> ok])
    IN  IF ok
        THEN [t EXCEPT !.calls = called, !.pc = "record_usage",
                       !.analysis_result = AnalysisText(model_name)]
        ELSE IF t.model_idx < Len(models_to_try)
             THEN [t EXCEPT !.calls = called, !.model_idx = @ + 1]
             ELSE [t EXCEPT !.calls = called, !.pc = "record_usage",
                            !.analysis_result = GeminiError(RemoteException)]

\* Variant: a candidate that raised is tried again.
try_model_retries(t, ok) ==
    LET model_name == models_to_try[t.model_idx]
        called == Append(t.calls, [model |-> model_name, ok |-> ok])
    IN  IF ok
        THEN [t EXCEPT !.calls = called, !.pc = "record_usage",
                       !.analysis_result = AnalysisText(model_name)]
        ELSE [t EXCEPT !.calls = called]

\* Lines 79-112, one iteration of the loop over models_to_try: the remote call
\* returns and its text is the result, or raises and the loop goes on to the
\* next candidate; after the last candidate the fixed string is returned.
try_model(t, ok) ==
    LET model_name == models_to_try[t.model_idx]
        called == Append(t.calls, [model |-> model_name, ok |-> ok])
    IN  IF ok
        THEN [t EXCEPT !.calls = called, !.pc = "record_usage",
                       !.analysis_result = AnalysisText(model_name)]
        ELSE IF t.model_idx < Len(models_to_try)
             THEN [t EXCEPT !.calls = called, !.model_idx = @ + 1]
             ELSE [t EXCEPT !.calls = called, !.pc = "record_usage",
                            !.analysis_result = AllUnavailable]

\* ------------------------------------------------------------- handle_photo
\* Variant: the denial is not acted on, every request goes on.
begin_photo_no_denial(user_id, r) ==
    [NewTask EXCEPT !.user = user_id, !.can_request = r.allowed,
                    !.message = r.message, !.pc = "send_processing"]

\* Lines 119-137: the local state after the quota check; a denied request goes
\* on to send the limit message, an allowed one to send the placeholder.
begin_photo(user_id, r) ==
    [NewTask EXCEPT !.user = user_id, !.can_request = r.allowed,
                    !.message = r.message,
                    !.pc = IF r.allowed THEN "send_processing"
                           ELSE "send_denial"]

\* Lines 151-156: full_response is the text analyze_with_gemini returned,
\* whichever it is, followed by the usage line.
compose_response(result) == ResultText

\* Variant: on its way out the handler sends the analysis text when it has
\* one, whatever reply was asked for.
return_with_text_at_hand(t, reply) ==
    [NewTask EXCEPT !.pc = "done", !.outcome = "returned",
                    !.replies = Append(t.replies,
                                       IF t.full_response # ""
                                       THEN t.full_response ELSE reply)]

\* handle_photo returns (line 130, or the end of the function): its locals
\* are gone, what the user was sent remains.
return_with(t, reply) ==
    [NewTask EXCEPT !.pc = "done", !.outcome = "returned",
                    !.replies = Append(t.replies, reply)]

\* The exception leaves handle_photo (lines 129, 133 and 173 are outside any
\* try that would catch it).
raise_out(t) ==
    [NewTask EXCEPT !.pc = "done", !.outcome = "raised", !.replies = t.replies]

\* Variant: the failing await is outside the try and nothing catches it.
raise_caught_outside_try(t) == raise_out(t)

\* The exception is caught at line 167.
raise_caught(t) == [t EXCEPT !.pc = "exc_delete"]

\* Lines 145-156: analyze_with_gemini has returned and its own locals are
\* gone; the text goes into full_response.
after_analysis(t) ==
    [t EXCEPT !.pc = "delete_processing", !.image_data = "none",
              !.model_idx = 0, !.calls = << >>, !.analysis_result = NoResult,
              !.full_response = compose_response(t.analysis_result)]

\* Tasks of a user that passed the check and have not yet counted.
BeforeUsage ==
    {"send_processing", "get_file", "download", "image_open", "try_model",
     "record_usage"}
InFlight(u) ==
    Cardinality({q \in Tasks : task[q].user = u /\ task[q].pc \in BeforeUsage})
Active(q) == task[q].pc \notin {"idle", "done"}

\* Lines 119-122, up to the first await.
StartPhoto(t, u) ==
    /\ running = "none"
    /\ ~Active(t)
    /\ LET r == can_make_request(user_data, u, today)
       IN  /\ r.allowed =>
                r.user_data[u].requests_today + InFlight(u) < MaxRequests
           /\ user_data' = r.user_data
           /\ task' = [task EXCEPT ![t] = begin_photo(u, r)]
    /\ UNCHANGED << today, running, recorded, exceeded >>

\* Line 129 resumes: the limit message was sent, or reply_text raised.
DenialReply(t, ok) ==
    /\ running = "none"
    /\ task[t].pc = "send_denial"
    /\ task' = [task EXCEPT ![t] =
          IF ok THEN return_with(@, task[t].message) ELSE raise_out(@)]
    /\ UNCHANGED << user_data, today, running, recorded, exceeded >>

\* Lines 133-137 resume.
ProcessingReply(t, ok) ==
    /\ running = "none"
    /\ task[t].pc = "send_processing"
    /\ task' = [task EXCEPT ![t] =
          IF ok THEN [@ EXCEPT !.pc = "get_file", !.processing_msg = "shown"]
          ELSE raise_out(@)]
    /\ UNCHANGED << user_data, today, running, recorded, exceeded >>

\* Line 141 resumes.
GetFile(t, ok) ==
    /\ running = "none"
    /\ task[t].pc = "get_file"
    /\ task' = [task EXCEPT ![t] =
          IF ok THEN [@ EXCEPT !.pc = "download"] ELSE raise_caught(@)]
    /\ UNCHANGED << user_data, today, running, recorded, exceeded >>

\* Line 142 resumes; with the bytes in hand analyze_with_gemini is entered
\* (line 145) and runs without yielding.
Download(t, ok, bytes) ==
    /\ running = "none"
    /\ task[t].pc = "download"
    /\ IF ok
       THEN /\ task' = [task EXCEPT ![t] =
                   [@ EXCEPT !.pc = "image_open", !.image_data = bytes]]
            /\ running' = t
       ELSE /\ task' = [task EXCEPT ![t] = raise_caught(@)]
            /\ UNCHANGED running
    /\ UNCHANGED << user_data, today, recorded, exceeded >>

\* Line 69.
ImageOpen(t) ==
    /\ running = t
    /\ task[t].pc = "image_open"
    /\ task' = [task EXCEPT ![t] = open_image(@)]
    /\ UNCHANGED << user_data, today, running, recorded, exceeded >>

\* Lines 79-112, one candidate: generate_content returns a text or raises.
TryModel(t, ok) ==
    /\ running = t
    /\ task[t].pc = "try_model"
    /\ task' = [task EXCEPT ![t] = try_model(@, ok)]
    /\ UNCHANGED << user_data, today, running, recorded, exceeded >>

\* Lines 147-159: the counter, the text, and the await of delete().
RecordUsage(t) ==
    /\ running = t
    /\ task[t].pc = "record_usage"
    /\ LET u == task[t].user
           ud == record_usage(user_data, u)
       IN  /\ user_data' = ud
           /\ task' = [task EXCEPT ![t] = after_analysis(@)]
           /\ recorded' = [recorded EXCEPT ![u] = @ + 1]
           /\ exceeded' = IF recorded[u] + 1 > DailyLimit
                          THEN exceeded \cup {u} ELSE exceeded
    /\ running' = "none"
    /\ UNCHANGED today

\* Line 159 resumes.
DeleteProcessing(t, ok) ==
    /\ running = "none"
    /\ task[t].pc = "delete_processing"
    /\ task' = [task EXCEPT ![t] =
          IF ok THEN [@ EXCEPT !.pc = "send_result", !.processing_msg = "deleted"]
          ELSE raise_caught(@)]
    /\ UNCHANGED << user_data, today, running, recorded, exceeded >>

\* Line 165 resumes.
SendResult(t, ok) ==
    /\ running = "none"
    /\ task[t].pc = "send_result"
    /\ task' = [task EXCEPT ![t] =
          IF ok THEN return_with(@, task[t].full_response)
          ELSE raise_caught(@)]
    /\ UNCHANGED << user_data, today, running, recorded, exceeded >>

\* Lines 169-172: delete() once more; a message already deleted cannot be
\* deleted again, and whatever delete() raises is swallowed.
ExceptDelete(t, ok) ==
    /\ running = "none"
    /\ task[t].pc = "exc_delete"
    /\ ok => task[t].processing_msg = "shown"
    /\ task' = [task EXCEPT ![t] =
          [@ EXCEPT !.pc = "exc_reply",
                    !.processing_msg = IF ok THEN "deleted" ELSE @]]
    /\ UNCHANGED << user_data, today, running, recorded, exceeded >>

\* Line 173 resumes.
ExceptReply(t, ok) ==
    /\ running = "none"
    /\ task[t].pc = "exc_reply"
    /\ task' = [task EXCEPT ![t] =
          IF ok THEN return_with(@, GenericError) ELSE raise_out(@)]
    /\ UNCHANGED << user_data, today, running, recorded, exceeded >>

\* Lines 206-208 of stats: the record is looked up, and created when missing.
Stats(u) ==
    /\ running = "none"
    /\ user_data' = get_user_data(user_data, u)
    /\ UNCHANGED << today, running, task, recorded, exceeded >>

\* Lines 246-269: the subscription text replaces the menu message; nothing
\* is stored, no payment is taken.
subscribe_info_activates(ud, user_id) ==
    [get_user_data(ud, user_id) EXCEPT ![user_id].subscription_active = TRUE]

subscribe_info(ud, user_id) == ud

\* Lines 175-204: the welcome text and the menu; user_data is not read.
start(u) ==
    /\ running = "none"
    /\ UNCHANGED vars

\* Lines 271-290: the help text.
help_command(u) ==
    /\ running = "none"
    /\ UNCHANGED vars

\* Lines 232-244: a menu button of user u. When query.answer() raises,
\* query.data is never looked at and nothing else runs; otherwise
\* "subscribe" shows the subscription text, "stats" runs stats, "analyze"
\* and any other data store nothing.
CallbackData == {"subscribe", "stats", "analyze", "other"}
CallbackQueries ==
    {[answered |-> FALSE, data |-> ""]}
        \cup {[answered |-> TRUE, data |-> d] : d \in CallbackData}

handle_callback(u, query) ==
    /\ running = "none"
    /\ user_data' =
          IF ~query.answered THEN user_data
          ELSE IF query.data = "subscribe" THEN subscribe_info(user_data, u)
          ELSE IF query.data = "stats" THEN get_user_data(user_data, u)
          ELSE user_data
    /\ UNCHANGED << today, running, task, recorded, exceeded >>

\* The commands and buttons other than /stats.
Menu ==
    \E u \in Users :
        \/ start(u)
        \/ help_command(u)
        \/ \E query \in CallbackQueries : handle_callback(u, query)

\* Midnight: datetime.now().date() moves on.
Tick ==
    /\ today < MaxDay
    /\ today' = today + 1
    /\ recorded' = [u \in Users |-> 0]
    /\ UNCHANGED << user_data, running, task, exceeded >>

\* ------------------------------------------------------------ specification
\* Line 36: the store starts empty.
Init ==
    /\ user_data = << >>
    /\ today = 1
    /\ running = "none"
    /\ task = [t \in Tasks |-> NewTask]
    /\ recorded = [u \in Users |-> 0]
    /\ exceeded = {}

\* A suspended handle_photo resumes from an await, or goes on inside
\* analyze_with_gemini.
Resume(t) ==
    \/ \E ok \in BOOLEAN : DenialReply(t, ok)
    \/ \E ok \in BOOLEAN : ProcessingReply(t, ok)
    \/ \E ok \in BOOLEAN : GetFile(t, ok)
    \/ \E ok \in BOOLEAN, bytes \in ImageBytes : Download(t, ok, bytes)
    \/ ImageOpen(t)
    \/ \E ok \in BOOLEAN : TryModel(t, ok)
    \/ RecordUsage(t)
    \/ \E ok \in BOOLEAN : DeleteProcessing(t, ok)
    \/ \E ok \in BOOLEAN : SendResult(t, ok)
    \/ \E ok \in BOOLEAN : ExceptDelete(t, ok)
    \/ \E ok \in BOOLEAN : ExceptReply(t, ok)

Next ==
    \/ \E t \in Tasks, u \in Users : StartPhoto(t, u)
    \/ \E t \in Tasks : Resume(t)
    \/ \E u \in Users : Stats(u)
    \/ Tick

\* Handler invocations interleave at their await points.
Spec == Init /\ [][Next]_vars

\* All five handlers registered at lines 297-301: the commands and the menu
\* buttons interleave with the photos.
NextAll == Next \/ Menu

SpecAll == Init /\ [][NextAll]_vars

\* The photos of one user handled one after another, each within one day:
\* a photo is taken up when no earlier photo of that user is still being
\* handled, and midnight falls between two photos.
NoTaskOf(u) == \A q \in Tasks : Active(q) => task[q].user # u

NextDay ==
    \/ \E t \in Tasks, u \in Users : NoTaskOf(u) /\ StartPhoto(t, u)
    \/ \E t \in Tasks : Resume(t)
    \/ \E u \in Users : Stats(u)
    \/ (\A q \in Tasks : ~Active(q)) /\ Tick

SpecDay == Init /\ [][NextDay]_vars

\* The photos of one user handled one after another, with midnight falling
\* at any moment, also between a photo's check and its increment; photos of
\* different users still interleave.
NextSeq ==
    \/ \E t \in Tasks, u \in Users : NoTaskOf(u) /\ StartPhoto(t, u)
    \/ \E t \in Tasks : Resume(t)
    \/ \E u \in Users : Stats(u)
    \/ Tick

SpecSeq == Init /\ [][NextSeq]_vars

\* The quota functions on a stored record of any content: the store holds one
\* record of user Subscriber, whose subscription_active may be set; one
\* handler invocation at a time.
Subscriber == CHOOSE u \in Users : TRUE
Worker == CHOOSE t \in Tasks : TRUE

StoredRecords ==
    { rec \in [requests_today : 0..MaxRequests,
               last_request_date : {NoDate, 1},
               subscription_active : BOOLEAN] :
        rec.last_request_date = NoDate => rec.requests_today = 0 }

InitSub ==
    /\ user_data \in { (Subscriber :> rec) : rec \in StoredRecords }
    /\ today = 1
    /\ running = "none"
    /\ task = [t \in Tasks |-> NewTask]
    /\ recorded = [u \in Users |-> 0]
    /\ exceeded = {}

NextSub ==
    \/ \E u \in Users : StartPhoto(Worker, u)
    \/ Resume(Worker)
    \/ \E u \in Users : Stats(u)
    \/ Tick

SpecSub == InitSub /\ [][NextSub]_vars

\* analyze_with_gemini is synchronous code without an await: once entered
\* (line 145) it runs on, and each remote call returns or raises. One
\* handler invocation, from the empty store.
Analysis(t) == ImageOpen(t) \/ \E ok \in BOOLEAN : TryModel(t, ok)

SpecLoop == Init /\ [][NextSub]_vars /\ WF_vars(Analysis(Worker))

\* ------------------------------------------------------------------ claims
Count(ud, u) == IF u \in DOMAIN ud THEN ud[u].requests_today ELSE 0
Subscribed(ud, u) == u \in DOMAIN ud /\ ud[u].subscription_active
AllFailed(c) == \A i \in 1..Len(c) : ~c[i].ok

\* The step in which task t runs can_make_request (lines 119-122).
Called(t) ==
    ~Active(t) /\ task'[t].pc \in {"send_processing", "send_denial"}
\* The step in which task t counts its request (lines 148-149).
Counted(t) ==
    task[t].pc = "record_usage" /\ task'[t].pc # "record_usage"

\* C1: for a non-subscribed user with exactly 3 usage increments recorded on
\* the current day, a can_make_request call made that day (the next one and
\* every further one) returns denied with the limit message.
C1_DeniedAfterThreeRecorded ==
    [][\A t \in Tasks :
          ( /\ Called(t)
            /\ ~Subscribed(user_data', task'[t].user)
            /\ recorded[task'[t].user] = DailyLimit )
          => ~task'[t].can_request /\ task'[t].message = LimitMessage]_vars

\* C2 as stated: for a user whose recorded requests never exceeded 3 in any
\* day, every can_make_request call returns allowed.
C2_AllowedWhileNeverExceeded ==
    [][\A t \in Tasks :
          (Called(t) /\ task'[t].user \notin exceeded)
          => task'[t].can_request /\ task'[t].message = ""]_vars

\* C2 as amended: every can_make_request call made while fewer than 3
\* requests of the user have been recorded on the current day returns allowed,
\* with an empty reason.
C2_AllowedBelowLimit ==
    [][\A t \in Tasks :
          (Called(t) /\ recorded[task'[t].user] < DailyLimit)
          => task'[t].can_request /\ task'[t].message = ""]_vars

\* The third request of a day has just been allowed.
C2_Witness ==
    \E t \in Tasks :
        /\ task[t].pc = "send_processing"
        /\ recorded[task[t].user] = DailyLimit - 1
        /\ Count(user_data, task[t].user) = DailyLimit - 1

\* C3: a request of a user whose record has subscription_active = TRUE is
\* allowed with an empty reason whatever requests_today is, so such a request
\* is never on the denial path and goes on to its increment.
C3_SubscriberAlwaysAllowed ==
    \A t \in Tasks :
        (Active(t) /\ Subscribed(user_data, task[t].user))
        => /\ task[t].can_request
           /\ task[t].message = ""
           /\ task[t].pc # "send_denial"

\* A subscriber's request was counted beyond the daily limit.
C3_Witness ==
    \E t \in Tasks :
        /\ task[t].pc = "delete_processing"
        /\ Subscribed(user_data, task[t].user)
        /\ Count(user_data, task[t].user) > DailyLimit

\* C4: a can_make_request call on a date other than the record's
\* last_request_date leaves requests_today = 0 and last_request_date = today
\* and, for a non-subscribed user, allows the request whatever the count was;
\* and the first request counted on a day whose check ran that day ends with
\* requests_today = 1.
C4_NewDayResets ==
    [][\A t \in Tasks :
          LET u == task'[t].user
              v == task[t].user
          IN  /\ ( /\ Called(t)
                   /\ u \in DOMAIN user_data
                   /\ user_data[u].last_request_date # today )
                 => /\ user_data'[u].last_request_date = today
                    /\ user_data'[u].requests_today = 0
                    /\ ~user_data'[u].subscription_active
                         => task'[t].can_request
              /\ ( /\ Counted(t)
                   /\ recorded[v] = 0
                   /\ user_data[v].last_request_date = today )
                 => user_data'[v].requests_today = 1]_vars

\* On the second day a user's record shows that day and one request, the one
\* recorded that day.
C4_Witness ==
    \E u \in DOMAIN user_data :
        /\ today > 1
        /\ user_data[u].last_request_date = today
        /\ user_data[u].requests_today = 1
        /\ recorded[u] = 1

\* C5: photos of a non-subscribed user handled one after another within one
\* day: a photo is allowed, and goes on to the placeholder and the analysis,
\* exactly when fewer than 3 were counted that day; the photo after the third
\* is denied with requests_today = 3, and its handling sends the limit message
\* and nothing else: no placeholder, no download, no model call, and
\* requests_today stays as it is.
C5_FourthPhotoDenied ==
    [][\A t \in Tasks :
          /\ (Called(t) /\ ~Subscribed(user_data', task'[t].user))
             => /\ task'[t].can_request
                     <=> recorded[task'[t].user] < DailyLimit
                /\ task'[t].can_request => task'[t].pc = "send_processing"
                /\ ~task'[t].can_request
                     => /\ task'[t].pc = "send_denial"
                        /\ recorded[task'[t].user] = DailyLimit
                        /\ Count(user_data', task'[t].user) = DailyLimit
          /\ task[t].pc = "send_denial"
             => /\ task[t].processing_msg = "none"
                /\ task[t].image_data = "none"
                /\ task[t].calls = << >>
                /\ task[t].analysis_result = NoResult
                /\ task'[t] # task[t]
                     => /\ task'[t].pc = "done"
                        /\ user_data' = user_data
                        /\ task'[t].replies \in {<< >>, << LimitMessage >>}
                        /\ task'[t].outcome = "returned"
                             => task'[t].replies = << LimitMessage >>]_vars

\* Three photos were counted today and the next one got the limit message.
C5_Witness ==
    \E t \in Tasks, u \in DOMAIN user_data :
        /\ task[t].pc = "done"
        /\ task[t].replies = << LimitMessage >>
        /\ recorded[u] = DailyLimit
        /\ user_data[u].requests_today = DailyLimit

\* C6: the candidates are called in the order of models_to_try, each at most
\* once; every call before the last one failed; the loop goes on only after
\* failures; and a successful call ends it with that candidate's text as the
\* result.
C6_FirstSuccessInOrder ==
    \A t \in Tasks :
        LET c == task[t].calls
            r == task[t].analysis_result
        IN  /\ Len(c) <= Len(models_to_try)
            /\ \A i \in 1..Len(c) : c[i].model = models_to_try[i]
            /\ \A i \in 1..(Len(c) - 1) : ~c[i].ok
            /\ task[t].pc = "try_model"
                 => AllFailed(c) /\ Len(c) = task[t].model_idx - 1
            /\ (c # << >> /\ c[Len(c)].ok)
                 => /\ task[t].pc = "record_usage"
                    /\ r = AnalysisText(c[Len(c)].model)
            /\ r.kind = "analysis"
                 => c # << >> /\ c[Len(c)].ok /\ r.model = c[Len(c)].model

\* Candidate 1 failed, candidate 2 answered and its text is the result.
C6_Witness ==
    \E t \in Tasks :
        /\ task[t].calls = << [model |-> models_to_try[1], ok |-> FALSE],
                              [model |-> models_to_try[2], ok |-> TRUE] >>
        /\ task[t].analysis_result = AnalysisText(models_to_try[2])

\* C7: with a decodable image, analyze_with_gemini returns the fixed "all
\* models unavailable" string exactly when every candidate was called and
\* failed; that string is not the prefixed error string and carries no
\* exception message.
C7_AllUnavailable ==
    \A t \in Tasks :
        LET c == task[t].calls
            r == task[t].analysis_result
        IN  /\ r.kind = AllUnavailableText
                 => /\ task[t].image_data = "image"
                    /\ Len(c) = Len(models_to_try)
                    /\ AllFailed(c)
                    /\ r.detail = ""
                    /\ r.kind # GeminiErrorPrefix
            /\ ( /\ task[t].pc = "record_usage"
                 /\ task[t].image_data = "image"
                 /\ AllFailed(c) )
                 => r = AllUnavailable

\* All four candidates failed and the fixed string is the result.
C7_Witness ==
    \E t \in Tasks :
        /\ task[t].pc = "record_usage"
        /\ Len(task[t].calls) = Len(models_to_try)
        /\ task[t].analysis_result = AllUnavailable

\* C8: analyze_with_gemini always returns a string to handle_photo, never an
\* exception: the handler leaves the analysis only through the counting of
\* the request; on bytes that do not decode the result is the prefixed error
\* string with the decoder's message, and no candidate was called.
C8_DecodeErrorReturned ==
    \A t \in Tasks :
        /\ task[t].image_data # "none"
             => task[t].pc \in {"image_open", "try_model", "record_usage"}
        /\ task[t].pc = "record_usage" => task[t].analysis_result # NoResult
        /\ (task[t].image_data = "garbage" /\ task[t].pc # "image_open")
             => /\ task[t].pc = "record_usage"
                /\ task[t].analysis_result = GeminiError(DecodeException)
                /\ task[t].calls = << >>

\* Undecodable bytes were turned into the error string.
C8_Witness ==
    \E t \in Tasks :
        /\ task[t].image_data = "garbage"
        /\ task[t].pc = "record_usage"
        /\ task[t].analysis_result.kind = GeminiErrorPrefix

\* C9: requests_today of a user grows only in the step in which a request of
\* that user, for which analyze_with_gemini has returned a text, is counted,
\* and then by exactly 1; every request whose analysis returned is counted in
\* that step, whatever text was returned.
C9_CountedOnceAfterAnalysis ==
    [][/\ \A u \in Users :
             Count(user_data', u) > Count(user_data, u)
             => /\ Count(user_data', u) = Count(user_data, u) + 1
                /\ \E t \in Tasks :
                      /\ task[t].user = u
                      /\ Counted(t)
                      /\ task[t].analysis_result # NoResult
       /\ \A t \in Tasks :
             (task[t].pc = "record_usage" /\ task'[t] # task[t])
             => /\ task'[t].pc = "delete_processing"
                /\ Count(user_data', task[t].user)
                     = Count(user_data, task[t].user) + 1]_vars

\* A request has been counted and waits for the placeholder's deletion.
C9_Witness ==
    \E t \in Tasks :
        /\ task[t].pc = "delete_processing"
        /\ task[t].full_response = ResultText
        /\ Count(user_data, task[t].user) >= 1
        /\ recorded[task[t].user] >= 1

\* C10: handle_photo always returns normally, with a reply sent to the user.
C10_NoExceptionEscapes ==
    \A t \in Tasks :
        task[t].pc = "done"
        => task[t].outcome = "returned" /\ task[t].replies # << >>

\* C11: two photos of one non-subscribed user at 2 counted requests that
\* overlap both pass the check, because the check (lines 119-122) decides on
\* the stored counter alone and the increment (lines 148-149) comes only
\* after the analysis: every check of a non-subscribed user allows exactly
\* when the stored counter, after the date reset, is below 3, whatever is in
\* flight, and so requests_today can exceed 3.
C11_CheckSeesOnlyStoredCount ==
    [][\A t \in Tasks :
          (Called(t) /\ ~Subscribed(user_data', task'[t].user))
          => ( task'[t].can_request
               <=> Count(user_data', task'[t].user) < DailyLimit )]_vars

\* Within one day the counter of a non-subscribed user has passed the limit.
C11_Witness ==
    /\ today = 1
    /\ \E u \in DOMAIN user_data :
          /\ ~user_data[u].subscription_active
          /\ user_data[u].requests_today > DailyLimit
          /\ user_data[u].last_request_date = today

\* C12: whichever operation is the first to touch a user's record on a new
\* calendar day (the check, the increment or the statistics lookup) sets
\* requests_today to 0 and last_request_date to that day before it goes on;
\* for the increment: a request counted on a day other than the stored
\* last_request_date leaves requests_today = 1 and last_request_date = today.
C12_ResetOnFirstTouch ==
    [][\A t \in Tasks :
          ( /\ Counted(t)
            /\ task[t].user \in DOMAIN user_data
            /\ user_data[task[t].user].last_request_date # today )
          => /\ user_data'[task[t].user].requests_today = 1
             /\ user_data'[task[t].user].last_request_date = today]_vars

\* C13: in every reachable state every record of user_data has
\* subscription_active = FALSE: neither start, stats, help, a menu button
\* ("subscribe" included) nor handle_photo sets it.
C13_NeverSubscribed ==
    \A u \in DOMAIN user_data : ~user_data[u].subscription_active

\* Records exist for every user, one of them created by a photo that was
\* counted and one at the daily limit, and none is subscribed.
C13_Witness ==
    /\ DOMAIN user_data = Users
    /\ \E u \in Users : user_data[u].requests_today = DailyLimit
    /\ \E u \in Users : user_data[u].last_request_date = NoDate
    /\ \A u \in Users : ~user_data[u].subscription_active

\* C14: get_user_data creates the record [0, None, False] exactly when the
\* user has none, hands back an existing record as it is, and no operation
\* removes a record: in every step the records present stay present; a
\* record that appears is the new record, with the date the check stored in
\* it when a photo created it; and an existing record changes only by the
\* reset of a check made on another day or by the increment of one request,
\* both applied to the content the record had.
C14_LazyCreateNeverRemove ==
    [][\A u \in Users :
          /\ u \in DOMAIN user_data => u \in DOMAIN user_data'
          /\ (u \notin DOMAIN user_data /\ u \in DOMAIN user_data')
             => user_data'[u] \in
                   { NewRecord,
                     [NewRecord EXCEPT !.last_request_date = today] }
          /\ (u \in DOMAIN user_data /\ user_data'[u] # user_data[u])
             => \E t \in Tasks :
                   \/ /\ Called(t)
                      /\ task'[t].user = u
                      /\ user_data[u].last_request_date # today
                      /\ user_data'[u] =
                            [user_data[u] EXCEPT !.requests_today = 0,
                                                 !.last_request_date = today]
                   \/ /\ Counted(t)
                      /\ task[t].user = u
                      /\ user_data'[u] =
                            [user_data[u] EXCEPT !.requests_today = @ + 1]]_vars

\* One record was created by a statistics lookup and is still the new
\* record; the other was created by a photo, has been read again by a second
\* check and counted twice.
C14_Witness ==
    \E u, v \in Users :
        /\ u # v
        /\ u \in DOMAIN user_data /\ user_data[u] = NewRecord
        /\ v \in DOMAIN user_data /\ user_data[v].requests_today = 2
        /\ \E t \in Tasks :
              task[t].user = v /\ task[t].pc = "delete_processing"

\* A handler whose photo could not be fetched or downloaded, in its except
\* block: nothing was analysed, so no response text exists.
FetchFailed(t) ==
    task[t].pc \in {"exc_delete", "exc_reply"} /\ task[t].full_response = ""

\* C15: when get_file or download_as_bytearray fails after the check passed,
\* no model is called, requests_today stays as it is, the deletion of the
\* placeholder is attempted and its failure swallowed, and the reply sent is
\* the generic message: the failing step enters the except block with no
\* call made and the store untouched; there the handler goes from the
\* deletion to the reply whether or not the deletion worked, still without a
\* call and without touching the store, and the reply it sends is the
\* generic message and the only one.
C15_FetchFailureHandled ==
    [][\A t \in Tasks :
          /\ ( /\ task[t].pc \in {"get_file", "download"}
               /\ task'[t].pc \notin {"get_file", "download", "image_open"} )
             => /\ task'[t].pc = "exc_delete"
                /\ task'[t].calls = << >>
                /\ task'[t].full_response = ""
                /\ task'[t].replies = << >>
                /\ user_data' = user_data
          /\ (FetchFailed(t) /\ task'[t] # task[t])
             => /\ user_data' = user_data
                /\ task'[t].calls = << >>
                /\ task[t].pc = "exc_delete"
                   => /\ task'[t].pc = "exc_reply"
                      /\ task'[t].processing_msg \in {"deleted", "shown"}
                      /\ task'[t].replies = << >>
                /\ task[t].pc = "exc_reply"
                   => /\ task'[t].pc = "done"
                      /\ task'[t].outcome = "returned"
                         => task'[t].replies = << GenericError >>
                      /\ task'[t].outcome # "returned"
                         => task'[t].replies = << >>]_vars

\* The download failed, the placeholder has been deleted and the generic
\* reply is about to be sent; the user's counter is still 0.
C15_Witness ==
    \E t \in Tasks :
        /\ FetchFailed(t)
        /\ task[t].pc = "exc_reply"
        /\ task[t].processing_msg = "deleted"
        /\ task[t].calls = << >>
        /\ task[t].user \in DOMAIN user_data
        /\ user_data[task[t].user].requests_today = 0
        /\ recorded[task[t].user] = 0

\* C16: when every remote call returns or raises, analyze_with_gemini ends
\* after at most 4 remote calls: each iteration of the loop makes one call,
\* to the candidate at the loop's position, which was not called before;
\* the iteration either ends the loop or moves to the next position within
\* the list, never back; and the analysis, once entered, reaches its return.
C16_LoopTerminates ==
    /\ [][\A t \in Tasks :
             (task[t].pc = "try_model" /\ task'[t] # task[t])
             => LET c == task[t].calls
                    d == task'[t].calls
                IN  /\ Len(d) = Len(c) + 1
                    /\ Len(d) <= Len(models_to_try)
                    /\ d[Len(d)].model = models_to_try[task[t].model_idx]
                    /\ \A i \in 1..Len(c) : c[i] = d[i]
                    /\ \A i \in 1..Len(c) : c[i].model # d[Len(d)].model
                    /\ \/ task'[t].pc = "record_usage"
                       \/ /\ task'[t].pc = "try_model"
                          /\ task'[t].model_idx = task[t].model_idx + 1
                          /\ task'[t].model_idx <= Len(models_to_try)]_vars
    /\ \A t \in Tasks :
          (task[t].pc \in {"image_open", "try_model"})
             ~> (task[t].pc = "record_usage")

\* Three candidates raised and the fourth answered: four calls, and the
\* analysis has returned.
C16_Witness ==
    \E t \in Tasks :
        /\ task[t].pc = "record_usage"
        /\ Len(task[t].calls) = Len(models_to_try)
        /\ task[t].calls[Len(models_to_try)].ok
        /\ \A i \in 1..(Len(models_to_try) - 1) : ~task[t].calls[i].ok

\* C17: when the photos of a user are handled one at a time, requests_today
\* of every non-subscribed user is between 0 and 3 in every reachable state,
\* whatever the sequence of photos, statistics lookups and midnights, a
\* midnight between a photo's check and its increment included.
C17_SequentialWithinLimit ==
    \A u \in DOMAIN user_data :
        ~user_data[u].subscription_active
        => user_data[u].requests_today \in 0..DailyLimit

\* The third request of a day was checked before midnight and counted after
\* it: the counter is 3 under the previous day's date.
C17_Witness ==
    \E t \in Tasks :
        /\ task[t].pc = "delete_processing"
        /\ task[t].user \in DOMAIN user_data
        /\ ~user_data[task[t].user].subscription_active
        /\ user_data[task[t].user].requests_today = DailyLimit
        /\ user_data[task[t].user].last_request_date < today
        /\ recorded[task[t].user] = 1

\* A handler in its except block after its request was counted: the response
\* text had been composed when the deletion or the sending failed.
LateFailure(t) ==
    task[t].pc \in {"exc_delete", "exc_reply"} /\ task[t].full_response # ""

\* C18: the increment comes before the placeholder's deletion and before the
\* sending of the result, so a failure of either leaves the request counted
\* and the generic message as the only reply: the counting step happens with
\* the placeholder still shown and nothing sent; a deletion or sending that
\* fails enters the except block with the store as it is and nothing sent;
\* no step of the except block touches the store; and the reply sent from
\* there is the generic message, never the analysis text.
C18_CountedBeforeDelivery ==
    [][\A t \in Tasks :
          /\ Counted(t)
             => /\ user_data'[task[t].user].requests_today
                      = Count(user_data, task[t].user) + 1
                /\ task'[t].pc = "delete_processing"
                /\ task'[t].processing_msg = "shown"
                /\ task'[t].replies = << >>
          /\ ( /\ task[t].pc \in {"delete_processing", "send_result"}
               /\ task'[t].pc \notin {"delete_processing", "send_result",
                                      "done"} )
             => /\ task'[t].pc = "exc_delete"
                /\ LateFailure(t)'
                /\ task'[t].replies = << >>
                /\ user_data' = user_data
          /\ (LateFailure(t) /\ task'[t] # task[t])
             => /\ user_data' = user_data
                /\ task[t].pc = "exc_delete" => LateFailure(t)'
                /\ task[t].pc = "exc_reply"
                   => /\ task'[t].pc = "done"
                      /\ task'[t].replies \in {<< >>, << GenericError >>}
                      /\ task'[t].outcome = "returned"
                         => task'[t].replies = << GenericError >>]_vars

\* The request was counted and the placeholder deleted, then the sending of
\* the result failed: the counter holds the request and the generic reply is
\* about to be sent.
C18_Witness ==
    \E t \in Tasks :
        /\ LateFailure(t)
        /\ task[t].pc = "exc_reply"
        /\ task[t].processing_msg = "deleted"
        /\ task[t].replies = << >>
        /\ Count(user_data, task[t].user) = 1
        /\ recorded[task[t].user] = 1

\* The record of user u in store ud; no record when u has none.
RecordOf(ud, u) == IF u \in DOMAIN ud THEN << ud[u] >> ELSE << >>

\* C19: the quota state is kept per user: under any interleaving, a step
\* made for one user (a check, an increment, a statistics lookup, a menu
\* button) leaves the record of every other user as it was, and the answer
\* of a check is the one that user's own record and the date give, whatever
\* the other records hold.
C19_PerUserIsolation ==
    [][/\ user_data' # user_data
          => \E u \in Users :
                /\ \A v \in Users \ {u} :
                      RecordOf(user_data', v) = RecordOf(user_data, v)
                /\ \/ \E t \in Tasks : Called(t) /\ task'[t].user = u
                   \/ \E t \in Tasks : Counted(t) /\ task[t].user = u
                   \/ u \notin DOMAIN user_data /\ user_data'[u] = NewRecord
       /\ \A t \in Tasks :
             Called(t)
             => LET u == task'[t].user
                    own == [w \in DOMAIN user_data \cap {u} |-> user_data[w]]
                    r == can_make_request(own, u, today)
                IN  /\ task'[t].can_request = r.allowed
                    /\ task'[t].message = r.message
                    /\ user_data'[u] = r.user_data[u]]_vars

\* On one day one user has used up the limit and is denied, while a photo of
\* the other user, whose counter is below the limit, is allowed.
C19_Witness ==
    \E s, t \in Tasks :
        /\ task[s].pc = "send_denial"
        /\ task[t].pc = "send_processing"
        /\ task[s].user # task[t].user
        /\ user_data[task[s].user].requests_today >= DailyLimit
        /\ user_data[task[t].user].requests_today < DailyLimit
        /\ user_data[task[s].user].last_request_date = today
        /\ user_data[task[t].user].last_request_date = today

====
